---------------------------- MODULE Spec2Model ----------------------------
(***************************************************************************)
(* Model of the random-Fourier-feature Thompson sampler                    *)
(* (fourier_features.py) and of the preference helper objective_get_y      *)
(* (objectives.py).                                                        *)
(*                                                                         *)
(* Numbers.  The code computes in float64.  The model evaluates the same   *)
(* expressions exactly on inputs taken from a lattice on which they are    *)
(* exact:                                                                  *)
(*   - angles (W @ X^T + b) are whole numbers of quarter turns, so cos and *)
(*     sin take the values 1, 0, -1, 0;                                    *)
(*   - phi is kept in units of sqrt(2/D) and theta in units of sqrt(D/2),  *)
(*     so phi @ theta is in plain units;                                   *)
(*   - an inverse is the pair (adjugate, determinant), a quotient is the   *)
(*     pair (numerator, denominator > 0);                                  *)
(*   - candidate coordinates are whole multiples of the optimizer's step.  *)
(***************************************************************************)
EXTENDS Integers, Sequences, FiniteSets

VARIABLES
    pc,           \* position of the call being modelled
    err,          \* exception leaving the call ("none" while there is none)
    \* ---- sample_fourier_features / sample_features_weights
    X,            \* (count, n, d) input points
    kernel,       \* model.kernel
    D,            \* number of Fourier features
    q_mu,         \* model.q_mu   (m, 1)
    q_sqrt,       \* model.q_sqrt (1, m, m)
    lengthscales, \* local of sample_fourier_features
    phi, W, b, theta,        \* locals of sample_features_weights
    invertible, fail_count,  \* locals of sample_features_weights
    calls,        \* history: invocations of sample_fourier_features
    caught,       \* history: messages of the exceptions the except clause caught
    inverted,     \* history: the matrices handed to tf.linalg.inv by the last attempt
    \* ---- sample_maximizers
    n_init, min_val, max_val, num_steps,   \* arguments
    x_star,       \* (count, n_init, d) candidates, the only trained variable
    prev_loss, current_loss, step,         \* locals of the loop (step is the code's i)
    fvals, maximizers,                     \* locals of the selection
    updates,      \* history: calls of optimizer.minimize
    loss_hist,    \* history: every value loss() returned, in order
    clipped,      \* history: the constraint moved some coordinate back
    \* ---- objective_get_y
    x,            \* (..., num_choices, input_dims) array of candidate points
    y             \* the array returned

sfwVars == <<X, kernel, D, q_mu, q_sqrt, lengthscales, phi, W, b, theta,
             invertible, fail_count, calls, caught, inverted>>

maxVars == <<n_init, min_val, max_val, num_steps, x_star, prev_loss, current_loss,
             step, fvals, maximizers, updates, loss_hist, clipped>>

objVars == <<x, y>>

vars == <<pc, err, sfwVars, maxVars, objVars>>

None == <<>>

-----------------------------------------------------------------------------
(* Small integer and matrix arithmetic.  A matrix is a sequence of rows.   *)

Abs(v) == IF v < 0 THEN -v ELSE v

Sign(v) == IF v > 0 THEN 1 ELSE IF v < 0 THEN -1 ELSE 0

Min2(u, v) == IF u <= v THEN u ELSE v

Max2(u, v) == IF u >= v THEN u ELSE v

RECURSIVE SumSeq(_)
SumSeq(s) == IF s = <<>> THEN 0 ELSE Head(s) + SumSeq(Tail(s))

Dot(u, v) == SumSeq([k \in 1..Len(u) |-> u[k] * v[k]])

NumCols(A) == IF Len(A) = 0 THEN 0 ELSE Len(A[1])

matrix_transpose(A) == [j \in 1..NumCols(A) |-> [i \in 1..Len(A) |-> A[i][j]]]

MatMul(A, B) ==
    [i \in 1..Len(A) |-> [j \in 1..NumCols(B) |->
        SumSeq([k \in 1..Len(B) |-> A[i][k] * B[k][j]])]]

MatVec(A, v) == [i \in 1..Len(A) |-> Dot(A[i], v)]

DropAt(s, k) == [i \in 1..(Len(s) - 1) |-> IF i < k THEN s[i] ELSE s[i + 1]]

Minor(A, r, c) == [i \in 1..(Len(A) - 1) |-> DropAt(DropAt(A, r)[i], c)]

RECURSIVE Det(_)
Det(A) ==
    IF Len(A) = 0 THEN 1
    ELSE IF Len(A) = 1 THEN A[1][1]
    ELSE SumSeq([j \in 1..Len(A) |->
            (IF j % 2 = 1 THEN 1 ELSE -1) * A[1][j] * Det(Minor(A, 1, j))])

Adjugate(A) ==
    [i \in 1..Len(A) |-> [j \in 1..Len(A) |->
        (IF (i + j) % 2 = 0 THEN 1 ELSE -1) * Det(Minor(A, j, i))]]

\* cos and sin of k quarter turns
CosQ(k) == LET r == k % 4 IN IF r = 0 THEN 1 ELSE IF r = 2 THEN -1 ELSE 0

SinQ(k) == LET r == k % 4 IN IF r = 1 THEN 1 ELSE IF r = 3 THEN -1 ELSE 0

-----------------------------------------------------------------------------
(* fourier_features(X, W, b): (count, n, D), in units of sqrt(2/D).        *)

fourier_features(Xa, Wa, ba) ==
    [c \in 1..Len(Xa) |-> [i \in 1..Len(Xa[c]) |-> [j \in 1..Len(Wa[c]) |->
        CosQ(Dot(Wa[c][j], Xa[c][i]) + ba[c][j])]]]

-----------------------------------------------------------------------------
(* Kernels.  A lengthscale is what k.lengthscale.numpy() returns: a 0-d    *)
(* array (ndim 0) or a 1-d array (ndim 1) with its values in v.            *)

Scalar(l) == [ndim |-> 0, v |-> <<l>>]

Vector(s) == [ndim |-> 1, v |-> s]

Stationary(ls) == [type |-> "SquaredExponential", lengthscale |-> ls, kernels |-> <<>>]

Product(ks) == [type |-> "Product", lengthscale |-> None, kernels |-> ks]

\* lengthscales[i] = lengthscale_val: numpy stores a 0-d array or an array
\* of one element and refuses any longer one with ValueError.
StoresAsElement(ls) == Len(ls.v) = 1

\* The loop of lines 36-40, from 0-based index i with the array built so far.
RECURSIVE LengthscaleLoop(_, _, _, _)
LengthscaleLoop(kern, input_dims, i, acc) ==
    IF i >= input_dims THEN [err |-> "none", val |-> acc]
    ELSE IF i + 1 > Len(kern.kernels) THEN [err |-> "IndexError", val |-> acc]
    ELSE LET lengthscale_val == kern.kernels[i + 1].lengthscale IN
         IF ~StoresAsElement(lengthscale_val)
         THEN [err |-> "ValueError", val |-> acc]
         ELSE LengthscaleLoop(kern, input_dims, i + 1,
                [acc EXCEPT ![i + 1] = lengthscale_val.v[1],
                            ![i + 1 + input_dims] = lengthscale_val.v[1]])

\* Mutant: line 40 left out, the second half stays zero.
BuildLengthscalesNoMirror(kern, d) ==
    IF kern.type = "Product"
    THEN LET r == LengthscaleLoop(kern, d \div 2, 0, [k \in 1..d |-> 0]) IN
         [r EXCEPT !.val = [k \in 1..d |-> IF k <= d \div 2 THEN r.val[k] ELSE 0]]
    ELSE [err |-> "none", val |-> kern.lengthscale.v]

\* Lines 33-42: the lengthscale array sample_fourier_features builds.
BuildLengthscales(kern, d) ==
    IF kern.type = "Product"
    THEN LengthscaleLoop(kern, d \div 2, 0, [k \in 1..d |-> 0])
    ELSE [err |-> "none", val |-> kern.lengthscale.v]

\* sample_fourier_features(X, kernel, D) with the draws of W and b given.
sample_fourier_features(Xa, kern, Wd, bd) ==
    LET ls == BuildLengthscales(kern, Len(Xa[1][1])) IN
    IF ls.err # "none"
    THEN [err |-> ls.err, lengthscales |-> ls.val, phi |-> None, W |-> None, b |-> None]
    ELSE [err |-> "none", lengthscales |-> ls.val,
          phi |-> fourier_features(Xa, Wd, bd), W |-> Wd, b |-> bd]


-----------------------------------------------------------------------------
(* sample_theta_variational(phi, q_mu, q_sqrt) with the standard-normal     *)
(* draw zd (count, n) given.  theta[c] = [num, den]: the vector num / den. *)

\* tf.linalg.inv: (adjugate, determinant); it raises when the input is singular.
IsSingular(G) == Det(G) = 0

\* Mutant: the boundary n = D sent to the other branch.
UseNormalEquationsStrict(n, Dd) == n > Dd

\* Line 80: the predicate of tf.cond.
UseNormalEquations(n, Dd) == n >= Dd

\* Lines 81-82: the matrix the selected branch hands to tf.linalg.inv.
GramToInvert(ph) ==
    IF UseNormalEquations(Len(ph), NumCols(ph))
    THEN MatMul(matrix_transpose(ph), ph)
    ELSE MatMul(ph, matrix_transpose(ph))

\* Lines 80-82: numerator of transform_mat (D, n); its denominator is Det.
TransformNum(ph) ==
    IF UseNormalEquations(Len(ph), NumCols(ph))
    THEN MatMul(Adjugate(GramToInvert(ph)), matrix_transpose(ph))
    ELSE MatMul(matrix_transpose(ph), Adjugate(GramToInvert(ph)))

\* Line 74: q_sqrt @ z + q_mu needs q_sqrt's side to be n and q_mu to
\* broadcast against (count, n, 1).
ShapesAgree(n, qm, qs) == Len(qs) = n /\ (Len(qm) = n \/ Len(qm) = 1)

QSamples(qm, qs, z) ==
    LET sz == MatVec(qs, z) IN
    [i \in 1..Len(sz) |-> sz[i] + (IF Len(qm) = 1 THEN qm[1] ELSE qm[i])]

\* Lines 74-82 up to the inversion: the failure of the call, if any, and the
\* matrices handed to tf.linalg.inv.  No failure depends on the draw.
SolveOutcome(ph, qm, qs) ==
    IF ~ShapesAgree(Len(ph[1]), qm, qs)
    THEN [err |-> "InvalidArgumentError", msg |-> "Incompatible shapes",
          inverted |-> None]
    ELSE LET G == [c \in 1..Len(ph) |-> GramToInvert(ph[c])] IN
         IF \E c \in 1..Len(ph) : IsSingular(G[c])
         THEN [err |-> "InvalidArgumentError", msg |-> "Input is not invertible",
               inverted |-> G]
         ELSE [err |-> "none", msg |-> "", inverted |-> G]

sample_theta_variational(ph, qm, qs, zd) ==
    LET o == SolveOutcome(ph, qm, qs) IN
    [err |-> o.err, msg |-> o.msg, inverted |-> o.inverted,
     theta |-> IF o.err # "none" THEN None
               ELSE [c \in 1..Len(ph) |->
                       [num |-> MatVec(TransformNum(ph[c]), QSamples(qm, qs, zd[c])),
                        den |-> Det(o.inverted[c])]]]

-----------------------------------------------------------------------------
(* Inputs.                                                                 *)

MaxN == 2        \* n, the number of evaluation points, ranges over 1..MaxN
MaxKernels == 2  \* a Product kernel has 1..MaxKernels components
MaxLs == 2       \* lengthscale values range over 1..MaxLs

RetryLimit == 100

FeatureCounts == {1, 2}   \* values of D, the number of Fourier features

WVals == {0, 1}   \* draws of an entry of W, quarter turns per unit length
BVals == {0, 1}   \* draws of an entry of b, quarter turns
ZVals == {-1, 1}  \* draws of a standard-normal entry

\* All sequences of length len over S.
RECURSIVE Tuples(_, _)
Tuples(S, len) ==
    IF len = 0 THEN {<<>>}
    ELSE {<<h>> \o t : h \in S, t \in Tuples(S, len - 1)}

TuplesUpTo(S, lo, hi) == UNION {Tuples(S, len) : len \in lo..hi}

\* The variational posterior of a model fitted on m points.
ModelQMu(m) == [i \in 1..m |-> i]

ModelQSqrt(m) == [i \in 1..m |-> [j \in 1..m |-> IF j <= i THEN 1 ELSE 0]]

\* count copies of n points on a line (d = 1): 0, 1, ..., n-1.
LinePoints(count, n) == [c \in 1..count |-> [i \in 1..n |-> <<i - 1>>]]

\* count copies of one point at the origin of d-dimensional space.
Origin(count, d) == [c \in 1..count |-> <<[k \in 1..d |-> 0]>>]

Count == Len(X)

NPoints == Len(X[1])

Dim == Len(X[1][1])

WDraws == Tuples(Tuples(Tuples(WVals, Dim), D), Count)

BDraws == Tuples(Tuples(BVals, D), Count)

ZDraws == Tuples(Tuples(ZVals, NPoints), Count)

\* The draws of z that lead to different outcomes for the features ph: a
\* failed solve never reads its draw.
ZChoices(ph) ==
    IF SolveOutcome(ph, q_mu, q_sqrt).err # "none"
    THEN {[c \in 1..Count |-> [i \in 1..NPoints |-> 1]]}
    ELSE ZDraws

\* sample_maximizers is not running.
NoMaximizerSearch ==
    /\ n_init = 0 /\ min_val = 0 /\ max_val = 0 /\ num_steps = 0
    /\ x_star = None /\ prev_loss = None /\ current_loss = None /\ step = 0
    /\ fvals = None /\ maximizers = None
    /\ updates = 0 /\ loss_hist = <<>> /\ clipped = FALSE

\* objective_get_y is not running.
NoPreferenceQuery == x = None /\ y = None

-----------------------------------------------------------------------------
(* sample_fourier_features called on its own.                              *)

\* The component kernels of a product over a d-dimensional input: each has a
\* single lengthscale or one lengthscale per axis of its half.
Components(d) ==
    {Stationary(Scalar(l)) : l \in 1..MaxLs}
        \cup {Stationary(Vector(s)) : s \in Tuples(1..MaxLs, d \div 2)}

KernelsFor(d) ==
    {Product(ks) : ks \in TuplesUpTo(Components(d), 1, MaxKernels)}
        \cup {Stationary(Scalar(l)) : l \in 1..MaxLs}

InitSFF ==
    /\ pc = "sff"
    /\ err = "none"
    /\ \E d \in {2, 4} : X = Origin(1, d) /\ kernel \in KernelsFor(d)
    /\ D = 1
    /\ q_mu = ModelQMu(1)
    /\ q_sqrt = ModelQSqrt(1)
    /\ lengthscales = None
    /\ phi = None /\ W = None /\ b = None /\ theta = None
    /\ invertible = FALSE
    /\ fail_count = 0
    /\ calls = 0
    /\ caught = {}
    /\ inverted = None
    /\ NoMaximizerSearch
    /\ NoPreferenceQuery

SampleFourierFeatures ==
    /\ pc = "sff"
    /\ pc' = "sff_done"
    /\ calls' = calls + 1
    /\ \E Wd \in WDraws, bd \in BDraws :
         LET r == sample_fourier_features(X, kernel, Wd, bd) IN
         /\ err' = r.err
         /\ lengthscales' = r.lengthscales
         /\ phi' = r.phi /\ W' = r.W /\ b' = r.b
    /\ UNCHANGED <<X, kernel, D, q_mu, q_sqrt, theta, invertible, fail_count,
                   caught, inverted>>
    /\ UNCHANGED maxVars
    /\ UNCHANGED objVars

NextSFF == SampleFourierFeatures

SpecSFF == InitSFF /\ [][NextSFF]_vars

-----------------------------------------------------------------------------
(* sample_features_weights(X, model, D): one action per pass of the while  *)
(* loop of lines 94-105 (the try body, the except clause, the limit test). *)

\* Line 99: the except clause catches by exception class.
IsCaught(e) == e = "InvalidArgumentError"

\* Mutant: one failure too many allowed.
RetryLimitReachedLate(fc) == fc > RetryLimit

\* Line 103.
RetryLimitReached(fc) == fc >= RetryLimit

\* The model of a caller: fitted on m points, asked about n points.
InitSFW ==
    /\ pc = "loop"
    /\ err = "none"
    /\ \/ /\ \E n \in 1..MaxN : X = LinePoints(1, n)
          /\ kernel = Stationary(Scalar(1))
          /\ D \in FeatureCounts
          /\ \E m \in {NPoints} \cup (IF D = 1 THEN {NPoints + 1} ELSE {}) :
                q_mu = ModelQMu(m) /\ q_sqrt = ModelQSqrt(m)
       \/ /\ \E d \in {2, 4} : X = Origin(1, d)
          /\ kernel \in {Product(<<Stationary(Scalar(1)), Stationary(Scalar(2))>>),
                         Product(<<Stationary(Vector(<<1, 2>>)), Stationary(Vector(<<2, 1>>))>>),
                         Product(<<Stationary(Scalar(1))>>)}
          /\ D = 1
          /\ q_mu = ModelQMu(1) /\ q_sqrt = ModelQSqrt(1)
    /\ lengthscales = None
    /\ phi = None /\ W = None /\ b = None /\ theta = None
    /\ invertible = FALSE
    /\ fail_count = 0
    /\ calls = 0
    /\ caught = {}
    /\ inverted = None
    /\ NoMaximizerSearch
    /\ NoPreferenceQuery

\* Mutant: W drawn once and kept over the retries.
AfterTryStaleW(r, t) ==
    [phi          |-> r.phi,
     W            |-> IF W = None THEN r.W ELSE W,
     b            |-> r.b,
     theta        |-> IF t.err = "none" THEN t.theta ELSE theta,
     invertible   |-> t.err = "none",
     fail_count   |-> IF t.err = "none" THEN fail_count ELSE fail_count + 1,
     caught       |-> IF t.err = "none" THEN caught ELSE caught \cup {t.msg},
     inverted     |-> t.inverted]

\* What the pass leaves behind once the try statement is over: phi, W, b are
\* bound as soon as sample_fourier_features returns, theta only on success.
AfterTry(r, t) ==
    [phi          |-> r.phi,
     W            |-> r.W,
     b            |-> r.b,
     theta        |-> IF t.err = "none" THEN t.theta ELSE theta,
     invertible   |-> t.err = "none",
     fail_count   |-> IF t.err = "none" THEN fail_count ELSE fail_count + 1,
     caught       |-> IF t.err = "none" THEN caught ELSE caught \cup {t.msg},
     inverted     |-> t.inverted]

Attempt ==
    /\ pc = "loop"
    /\ ~invertible
    /\ calls' = calls + 1
    /\ UNCHANGED <<X, kernel, D, q_mu, q_sqrt>>
    /\ UNCHANGED maxVars
    /\ UNCHANGED objVars
    /\ \E Wd \in WDraws, bd \in BDraws :
       \E r \in {sample_fourier_features(X, kernel, Wd, bd)} :
         /\ lengthscales' = r.lengthscales
         /\ IF r.err # "none"
            THEN \* not an InvalidArgumentError: it leaves the function
                 /\ pc' = "propagated"
                 /\ err' = r.err
                 /\ UNCHANGED <<phi, W, b, theta, invertible, fail_count, caught, inverted>>
            ELSE \E zd \in ZChoices(r.phi) :
                 \E t \in {sample_theta_variational(r.phi, q_mu, q_sqrt, zd)} :
                   IF t.err # "none" /\ ~IsCaught(t.err)
                   THEN /\ pc' = "propagated"
                        /\ err' = t.err
                        /\ phi' = r.phi /\ W' = r.W /\ b' = r.b
                        /\ UNCHANGED <<theta, invertible, fail_count, caught, inverted>>
                   ELSE \E a \in {AfterTry(r, t)} :
                        /\ phi' = a.phi /\ W' = a.W /\ b' = a.b /\ theta' = a.theta
                        /\ invertible' = a.invertible
                        /\ fail_count' = a.fail_count
                        /\ caught' = a.caught
                        /\ inverted' = a.inverted
                        /\ IF RetryLimitReached(a.fail_count)
                           THEN pc' = "raised" /\ err' = "ValueError: Failed"
                           ELSE /\ pc' = IF a.invertible THEN "returned" ELSE "loop"
                                /\ err' = "none"

NextSFW == Attempt

SpecSFW == InitSFW /\ [][NextSFW]_vars

-----------------------------------------------------------------------------
(* Exact quotients: [num, den] with den > 0, in lowest terms.              *)

RECURSIVE GCD(_, _)
GCD(u, v) == IF v = 0 THEN u ELSE GCD(v, u % v)

Rat(num, den) ==
    LET g == GCD(Abs(num), den) IN [num |-> num \div g, den |-> den \div g]

RAdd(p, q) == Rat(p.num * q.den + q.num * p.den, p.den * q.den)

RNeg(p) == [num |-> -p.num, den |-> p.den]

RLess(p, q) == p.num * q.den < q.num * p.den

RECURSIVE RSum(_)
RSum(s) == IF s = <<>> THEN Rat(0, 1) ELSE RAdd(Head(s), RSum(Tail(s)))

Flatten2(M) ==
    [idx \in 1..(Len(M) * NumCols(M)) |->
        M[((idx - 1) \div NumCols(M)) + 1][((idx - 1) % NumCols(M)) + 1]]

\* tf.reduce_mean over a (count, n_init, 1) tensor of quotients.
reduce_mean(M) ==
    LET total == RSum(Flatten2(M)) IN
    Rat(total.num, total.den * Len(M) * NumCols(M))

-----------------------------------------------------------------------------
(* sample_maximizers.                                                      *)

MaxNInit == 2    \* n_init ranges over 1..MaxNInit
MaxSteps == 3    \* num_steps ranges over 0..MaxSteps

SampleCounts == {1, 2}      \* values of count
Boxes == {<<0, 2>>, <<1, 3>>}   \* values of (min_val, max_val), in optimizer steps

RelTolInverse == 10000000   \* 1 / 1e-7

\* fourier_features(x_star, W, b) @ theta, squeezed: (count, n_init) quotients.
FVals(xs, Wa, ba, tha) ==
    LET ff == fourier_features(xs, Wa, ba) IN
    [c \in 1..Len(xs) |-> [k \in 1..Len(xs[c]) |->
        Rat(Dot(ff[c][k], tha[c].num), tha[c].den)]]

\* Lines 133-135.
construct_maximizer_objective(xs, Wa, ba, tha) ==
    RNeg(reduce_mean(FVals(xs, Wa, ba, tha)))

\* The sign of d loss / d x_star[c][k][dim]: the loss is -mean(cos(a) @ theta)
\* with a = W x + b, so its derivative is a positive multiple of
\* sum_j sin(a_j) * W[c][j][dim] * theta[c][j].
GradSign(xs, Wa, ba, tha, c, k, dim) ==
    Sign(SumSeq([j \in 1..Len(Wa[c]) |->
        SinQ(Dot(Wa[c][j], xs[c][k]) + ba[c][j]) * Wa[c][j][dim] * tha[c].num[j]]))

\* RMSprop with rho = 0: v - lr * g / (sqrt(g * g) + epsilon), one step of
\* length lr against the sign of g (no move where g = 0).
RMSpropStep(v, gsign) == v - gsign

\* Mutant: the variable's constraint is not applied.
ClipNone(v, lo, hi) == v

\* Line 145: tf.clip_by_value.
clip_by_value(v, lo, hi) == Min2(Max2(v, lo), hi)

Unclipped(xs, Wa, ba, tha) ==
    [c \in 1..Len(xs) |-> [k \in 1..Len(xs[c]) |-> [dim \in 1..Len(xs[c][k]) |->
        RMSpropStep(xs[c][k][dim], GradSign(xs, Wa, ba, tha, c, k, dim))]]]

Constrained(xs) ==
    [c \in 1..Len(xs) |-> [k \in 1..Len(xs[c]) |-> [dim \in 1..Len(xs[c][k]) |->
        clip_by_value(xs[c][k][dim], min_val, max_val)]]]

\* Mutant: theta is trained along with x_star.
MinimizeAlsoTheta(xs, Wa, ba, tha) ==
    [x_star |-> Constrained(Unclipped(xs, Wa, ba, tha)),
     W |-> Wa, b |-> ba,
     theta |-> [c \in 1..Len(tha) |->
                  [tha[c] EXCEPT !.num = [j \in 1..Len(tha[c].num) |-> @[j] + tha[c].den]]]]

\* Line 150: optimizer.minimize(loss, var_list=[x_star]); the constraint of
\* the variable is applied to the updated value.
Minimize(xs, Wa, ba, tha) ==
    [x_star |-> Constrained(Unclipped(xs, Wa, ba, tha)),
     W |-> Wa, b |-> ba, theta |-> tha]

\* Line 154: abs((current_loss - prev_loss) / prev_loss) < 1e-7.  Dividing by
\* a zero prev_loss gives inf or nan, which is not below the threshold.
RelSmall(prev, cur) ==
    LET diff == Abs(cur.num * prev.den - prev.num * cur.den)
        base == Abs(cur.den * prev.num)
    IN base # 0 /\ diff <= (base - 1) \div RelTolInverse

\* Mutant: prev_loss keeps the loss measured before the loop.
KeepPrevLoss(prev, cur) == prev

\* Line 157.
NextPrevLoss(prev, cur) == cur

\* Mutant: a later candidate replaces an equal earlier one.
BeatsOrTies(p, q) == ~RLess(p, q)

\* tf.math.argmax keeps the first of equal values: a later entry replaces
\* the best so far only when it is greater.
Beats(p, q) == RLess(q, p)

RECURSIVE ArgmaxFrom(_, _, _)
ArgmaxFrom(row, k, best) ==
    IF k > Len(row) THEN best
    ELSE ArgmaxFrom(row, k + 1, IF Beats(row[k], row[best]) THEN k ELSE best)

\* Line 165, 1-based.
argmax(row) == ArgmaxFrom(row, 2, 1)

\* Lines 164-167: max_idxs[c] = (c, argmax(fvals[c])), then tf.gather_nd.
max_idxs(fv) == [c \in 1..Len(fv) |-> <<c, argmax(fv[c])>>]

gather_nd(xs, idxs) == [c \in 1..Len(idxs) |-> xs[idxs[c][1]][idxs[c][2]]]

\* tf.random.uniform on [min_val, max_val).
InitCoords == IF min_val = max_val THEN {min_val} ELSE min_val..(max_val - 1)

XStarDraws == Tuples(Tuples(Tuples(InitCoords, Dim), n_init), Count)

\* What sample_features_weights(X, model, D) can hand back (lines 90-107):
\* the values of any attempt whose solve succeeds.
SFWReturns ==
    UNION {
      LET r == sample_fourier_features(X, kernel, Wd, bd) IN
      IF r.err # "none" \/ SolveOutcome(r.phi, q_mu, q_sqrt).err # "none" THEN {}
      ELSE {[phi |-> r.phi, W |-> r.W, b |-> r.b,
             theta |-> sample_theta_variational(r.phi, q_mu, q_sqrt, zd).theta]
               : zd \in ZDraws}
      : Wd \in WDraws, bd \in BDraws }

\* sample_features_weights raises its retry-limit error when the attempts
\* keep failing with a caught error.
SFWCanRaise ==
    \E Wd \in WDraws, bd \in BDraws :
       LET r == sample_fourier_features(X, kernel, Wd, bd) IN
       /\ r.err = "none"
       /\ IsCaught(SolveOutcome(r.phi, q_mu, q_sqrt).err)

InitMax ==
    /\ pc = "start"
    /\ err = "none"
    /\ \E count \in SampleCounts : X = LinePoints(count, 2)   \* line 129: tf.tile
    /\ kernel = Stationary(Scalar(1))
    /\ D \in (IF Count = 1 THEN FeatureCounts ELSE {1})
    /\ q_mu = ModelQMu(2) /\ q_sqrt = ModelQSqrt(2)
    /\ lengthscales = None
    /\ phi = None /\ W = None /\ b = None /\ theta = None
    /\ invertible = FALSE /\ fail_count = 0 /\ calls = 0 /\ caught = {} /\ inverted = None
    /\ n_init \in 1..MaxNInit
    /\ num_steps \in 0..MaxSteps
    /\ \E box \in Boxes : min_val = box[1] /\ max_val = box[2]
    /\ x_star = None /\ prev_loss = None /\ current_loss = None /\ step = 0
    /\ fvals = None /\ maximizers = None
    /\ updates = 0 /\ loss_hist = <<>> /\ clipped = FALSE
    /\ NoPreferenceQuery

frameMax == <<X, kernel, D, q_mu, q_sqrt, lengthscales, invertible, fail_count,
              calls, caught, inverted, n_init, min_val, max_val, num_steps, x, y>>

\* Line 131.
CallSampleFeaturesWeights ==
    /\ pc = "start"
    /\ \/ \E r \in SFWReturns :
            /\ phi' = r.phi /\ W' = r.W /\ b' = r.b /\ theta' = r.theta
            /\ pc' = "init" /\ err' = "none"
       \/ /\ SFWCanRaise
          /\ pc' = "raised" /\ err' = "ValueError: Failed"
          /\ UNCHANGED <<phi, W, b, theta>>
    /\ UNCHANGED frameMax
    /\ UNCHANGED <<x_star, prev_loss, current_loss, step, fvals, maximizers,
                   updates, loss_hist, clipped>>

\* Lines 141-148: the candidates are drawn and the loss is measured once.
InitXStar ==
    /\ pc = "init"
    /\ \E xs \in XStarDraws :
       \E l \in {construct_maximizer_objective(xs, W, b, theta)} :
         /\ x_star' = xs
         /\ prev_loss' = l
         /\ loss_hist' = <<l>>
    /\ step' = 0
    /\ pc' = IF num_steps > 0 THEN "opt" ELSE "select"
    /\ UNCHANGED frameMax
    /\ UNCHANGED <<err, phi, W, b, theta, current_loss, fvals, maximizers, updates, clipped>>

\* Lines 149-157: one pass of the for loop.
Step ==
    /\ pc = "opt"
    /\ step < num_steps
    /\ \E m \in {Minimize(x_star, W, b, theta)} :
       \E l \in {construct_maximizer_objective(m.x_star, m.W, m.b, m.theta)} :
         /\ x_star' = m.x_star /\ W' = m.W /\ b' = m.b /\ theta' = m.theta
         /\ clipped' = (clipped \/ m.x_star # Unclipped(x_star, W, b, theta))
         /\ current_loss' = l
         /\ loss_hist' = Append(loss_hist, l)
         /\ updates' = updates + 1
         /\ IF RelSmall(prev_loss, l)
            THEN /\ pc' = "select"      \* break
                 /\ UNCHANGED <<prev_loss, step>>
            ELSE /\ prev_loss' = NextPrevLoss(prev_loss, l)
                 /\ step' = step + 1
                 /\ pc' = IF step + 1 < num_steps THEN "opt" ELSE "select"
    /\ UNCHANGED frameMax
    /\ UNCHANGED <<err, phi, fvals, maximizers>>

\* Lines 159-169.
Select ==
    /\ pc = "select"
    /\ \E fv \in {FVals(x_star, W, b, theta)} :
         /\ fvals' = fv
         /\ maximizers' = gather_nd(x_star, max_idxs(fv))
    /\ pc' = "done"
    /\ UNCHANGED frameMax
    /\ UNCHANGED <<err, phi, W, b, theta, x_star, prev_loss, current_loss, step,
                   updates, loss_hist, clipped>>

NextMax == CallSampleFeaturesWeights \/ InitXStar \/ Step \/ Select

SpecMax == InitMax /\ [][NextMax]_vars

-----------------------------------------------------------------------------
(* objective_get_y (objectives.py).  An ndarray is [shape, data]: data maps *)
(* each 0-based index tuple of the shape to an entry.                      *)

MaxBatch == 2     \* a batch axis has 1..MaxBatch entries
MaxChoices == 2   \* num_choices ranges over 1..MaxChoices

Coords == {0, 1}  \* coordinates of a candidate point

RECURSIVE Indices(_)
Indices(shape) ==
    IF shape = <<>> THEN {<<>>}
    ELSE {<<h>> \o t : h \in 0..(shape[1] - 1), t \in Indices(Tail(shape))}

Ndim(a) == Len(a.shape)

Front(s) == SubSeq(s, 1, Len(s) - 1)

\* six_hump_camel (lines 22-24) times 30, which keeps every coefficient whole:
\* (4 - 2.1 x1^2 + x1^4 / 3) x1^2 + x1 x2 + (-4 + 4 x2^2) x2^2.
six_hump_camel(x1, x2) ==
    (120 - 63 * x1 * x1 + 10 * x1 * x1 * x1 * x1) * x1 * x1
        + 30 * x1 * x2
        + (-120 + 120 * x2 * x2) * x2 * x2

\* Line 123: objective(x), one value for each index of x.shape[:-1].
objective(a) ==
    [shape |-> Front(a.shape),
     data  |-> [idx \in Indices(Front(a.shape)) |->
                  six_hump_camel(a.data[idx \o <<0>>], a.data[idx \o <<1>>])]]

\* The least j along axis 1 at which e is least, for the other indices idx.
FirstArgminAlong1(e, idx) ==
    LET at(j) == e.data[<<idx[1], j>> \o Tail(idx)] IN
    CHOOSE j \in 0..(e.shape[2] - 1) :
       /\ \A k \in 0..(e.shape[2] - 1) : at(j) <= at(k)
       /\ \A k \in 0..(j - 1) : at(k) > at(j)

\* np.argmin(evals, axis=1): axis 1 must exist.
argmin_axis1(e) ==
    IF Ndim(e) < 2 THEN [err |-> "AxisError", shape |-> <<>>, data |-> <<>>]
    ELSE LET sh == <<e.shape[1]>> \o SubSeq(e.shape, 3, Ndim(e)) IN
         [err |-> "none", shape |-> sh,
          data |-> [idx \in Indices(sh) |-> FirstArgminAlong1(e, idx)]]

\* a[:, np.newaxis, np.newaxis]
new_axes(a) ==
    LET sh == <<a.shape[1], 1, 1>> \o Tail(a.shape) IN
    [shape |-> sh,
     data  |-> [idx \in Indices(sh) |-> a.data[<<idx[1]>> \o SubSeq(idx, 4, Len(idx))]]]

Broadcastable(m, n) == m = n \/ m = 1 \/ n = 1

\* np.take_along_axis(arr, ind, axis=-2): the arrays must have the same
\* number of axes and broadcast against each other off the axis; each index
\* read must lie inside arr's axis.
take_along_axis(arr, ind) ==
    IF Ndim(arr) # Ndim(ind) THEN [err |-> "ValueError", shape |-> <<>>, data |-> <<>>]
    ELSE LET nd == Ndim(arr)
             ax == nd - 1
             off == (1..nd) \ {ax}
         IN
         IF \E p \in off : ~Broadcastable(arr.shape[p], ind.shape[p])
         THEN [err |-> "IndexError", shape |-> <<>>, data |-> <<>>]
         ELSE LET sh == [p \in 1..nd |-> IF p = ax THEN ind.shape[p]
                                         ELSE Max2(arr.shape[p], ind.shape[p])]
                  inIdx(idx) == [p \in 1..nd |-> IF ind.shape[p] = 1 THEN 0 ELSE idx[p]]
                  arrIdx(idx) == [p \in 1..nd |->
                                    IF p = ax THEN ind.data[inIdx(idx)]
                                    ELSE IF arr.shape[p] = 1 THEN 0 ELSE idx[p]]
              IN
              IF \E idx \in Indices(sh) : ind.data[inIdx(idx)] >= arr.shape[ax]
              THEN [err |-> "IndexError", shape |-> <<>>, data |-> <<>>]
              ELSE [err |-> "none", shape |-> sh,
                    data |-> [idx \in Indices(sh) |-> arr.data[arrIdx(idx)]]]

\* np.squeeze(a, axis=-2)
squeeze(a) ==
    LET nd == Ndim(a) IN
    IF a.shape[nd - 1] # 1 THEN [err |-> "ValueError", shape |-> <<>>, data |-> <<>>]
    ELSE LET sh == SubSeq(a.shape, 1, nd - 2) \o <<a.shape[nd]>> IN
         [err |-> "none", shape |-> sh,
          data |-> [idx \in Indices(sh) |->
                      a.data[SubSeq(idx, 1, nd - 2) \o <<0, idx[nd - 1]>>]]]

\* Lines 123-125.
objective_get_y(a) ==
    LET evals == objective(a)
        am == argmin_axis1(evals)
    IN
    IF am.err # "none" THEN [err |-> am.err, shape |-> <<>>, data |-> <<>>]
    ELSE LET taken == take_along_axis(a, new_axes(am)) IN
         IF taken.err # "none" THEN taken ELSE squeeze(taken)

\* The leading batch axes of x: none, one, or two.
BatchShapes ==
    {<<>>} \cup {<<n>> : n \in 1..MaxBatch} \cup {<<1, n>> : n \in 1..MaxBatch}

InputShapes == {bs \o <<nc, 2>> : bs \in BatchShapes, nc \in 1..MaxChoices}

InitY ==
    /\ pc = "get_y"
    /\ err = "none"
    /\ X = None /\ kernel = None /\ D = 0 /\ q_mu = None /\ q_sqrt = None
    /\ lengthscales = None
    /\ phi = None /\ W = None /\ b = None /\ theta = None
    /\ invertible = FALSE /\ fail_count = 0 /\ calls = 0 /\ caught = {} /\ inverted = None
    /\ NoMaximizerSearch
    /\ \E sh \in InputShapes : x \in {[shape |-> sh, data |-> f] : f \in [Indices(sh) -> Coords]}
    /\ y = None

ObjectiveGetY ==
    /\ pc = "get_y"
    /\ pc' = "y_done"
    /\ \E r \in {objective_get_y(x)} :
         /\ err' = r.err
         /\ y' = IF r.err = "none" THEN [shape |-> r.shape, data |-> r.data] ELSE None
    /\ UNCHANGED <<sfwVars, maxVars, x>>

NextY == ObjectiveGetY

SpecY == InitY /\ [][NextY]_vars

-----------------------------------------------------------------------------
(* Properties of sample_fourier_features (SpecSFF).                        *)

HalfDim == Dim \div 2

\* The per-axis lengthscales of a component kernel over h axes.
PerAxis(k, h) ==
    IF k.lengthscale.ndim = 0 THEN [i \in 1..h |-> k.lengthscale.v[1]]
    ELSE k.lengthscale.v

-----------------------------------------------------------------------------
(* Properties of sample_features_weights (SpecSFW).                        *)

NotInvertible == "Input is not invertible"

\* C1: the retry-limit error is raised after exactly 100 failed attempts,
\* that is 100 invocations of sample_fourier_features, never earlier or
\* later; a success after fewer than 100 failures returns without raising.
C1_RetryBound ==
    /\ pc = "raised" =>
         /\ fail_count = RetryLimit /\ calls = RetryLimit
         /\ err = "ValueError: Failed" /\ ~invertible
    /\ pc = "loop" => fail_count < RetryLimit /\ calls = fail_count /\ ~invertible
    /\ invertible => pc = "returned"
    /\ pc = "returned" =>
         /\ invertible /\ err = "none"
         /\ fail_count < RetryLimit /\ calls = fail_count + 1

C1_Witness ==
    pc = "raised" /\ calls = RetryLimit /\ caught = {NotInvertible}

\* C7 as stated: only the singular-matrix failure is retried; any other
\* failure leaves on its first occurrence and never ends in the retry-limit
\* error.
C7_OnlySingularRetried ==
    /\ caught \subseteq {NotInvertible}
    /\ pc = "propagated" => calls = 1

\* C8: what is returned comes from the successful attempt alone: phi is the
\* feature map of X under the returned W and b, theta was solved from that
\* phi, whose Gram matrix was the one inverted, and a failed attempt leaves
\* no theta behind.
C8_ReturnedFromOneAttempt ==
    /\ pc = "returned" =>
         /\ phi = fourier_features(X, W, b)
         /\ inverted = [c \in 1..Count |-> GramToInvert(phi[c])]
         /\ \A c \in 1..Count : ~IsSingular(inverted[c])
         /\ \E zd \in ZDraws :
              theta = sample_theta_variational(phi, q_mu, q_sqrt, zd).theta
    /\ (pc \in {"loop", "raised"} /\ calls > 0) =>
         /\ theta = None
         /\ phi = fourier_features(X, W, b)

C8_Witness ==
    /\ pc = "returned" /\ fail_count > 0
    /\ phi = fourier_features(X, W, b)

\* C9: the matrix inverted is phi^T phi (D x D) when n >= D and phi phi^T
\* (n x n) when n < D, so its side is min(n, D); an attempt fails as singular
\* exactly when that matrix is singular, whatever the other Gram matrix is.
C9_BranchBySize ==
    inverted # None =>
      /\ \A c \in 1..Count :
           /\ Len(inverted[c]) = Min2(NPoints, D)
           /\ NPoints >= D => inverted[c] = MatMul(matrix_transpose(phi[c]), phi[c])
           /\ NPoints < D => inverted[c] = MatMul(phi[c], matrix_transpose(phi[c]))
      /\ invertible <=> (\A c \in 1..Count : Det(inverted[c]) # 0)

C9_Witness ==
    /\ pc = "returned"
    /\ NPoints < D
    /\ Det(MatMul(matrix_transpose(phi[1]), phi[1])) = 0
    /\ Det(inverted[1]) # 0

-----------------------------------------------------------------------------
(* Properties of sample_maximizers (SpecMax).                              *)

Searching == pc \in {"opt", "select", "done"}

InBox(v) == min_val <= v /\ v <= max_val

\* C2: every coordinate of every candidate lies in [min_val, max_val] once
\* the candidates are drawn and after every update, and so does every
\* coordinate of every returned maximizer, for every num_steps from 0 up.
C2_BoxConstraint ==
    /\ Searching =>
         \A c \in 1..Count : \A k \in 1..n_init : \A dim \in 1..Dim :
            InBox(x_star[c][k][dim])
    /\ pc = "done" =>
         \A c \in 1..Count : \A dim \in 1..Dim : InBox(maximizers[c][dim])

C2_Witness ==
    /\ pc = "done"
    /\ clipped
    /\ \E c \in 1..Count : maximizers[c][1] = min_val

\* C3: the maximizer returned for row c is the candidate x_star[c][j] of the
\* same row whose function value is greatest, j being the lowest such index.
C3_FirstArgmax ==
    pc = "done" =>
      \A c \in 1..Count :
        \E j \in 1..n_init :
          /\ \A k \in 1..n_init : ~RLess(fvals[c][j], fvals[c][k])
          /\ \A k \in 1..(j - 1) : RLess(fvals[c][k], fvals[c][j])
          /\ maximizers[c] = x_star[c][j]

C3_Witness ==
    /\ pc = "done"
    /\ n_init = 2
    /\ \E c \in 1..Count :
         /\ fvals[c][1] = fvals[c][2]
         /\ x_star[c][1] # x_star[c][2]
         /\ maximizers[c] = x_star[c][1]

\* C6: at most num_steps updates are made; the loop is left right after the
\* first update whose relative loss change is below 1e-7 and x_star is not
\* updated again; without such an update exactly num_steps updates are made;
\* prev_loss is always the loss measured right before the next update.
C6_EarlyStop ==
    Searching =>
      /\ updates <= num_steps
      /\ Len(loss_hist) = updates + 1
      /\ \A t \in 1..(updates - 1) : ~RelSmall(loss_hist[t], loss_hist[t + 1])
      /\ loss_hist[updates + 1] = construct_maximizer_objective(x_star, W, b, theta)
      /\ pc = "opt" =>
           /\ updates < num_steps
           /\ prev_loss = loss_hist[updates + 1]
           /\ updates > 0 => ~RelSmall(loss_hist[updates], loss_hist[updates + 1])
      /\ pc \in {"select", "done"} =>
           \/ updates = num_steps
           \/ updates > 0 /\ RelSmall(loss_hist[updates], loss_hist[updates + 1])

C6_Witness ==
    /\ pc = "done"
    /\ updates = 2
    /\ num_steps = 3
    /\ loss_hist[1] # loss_hist[2]
    /\ RelSmall(loss_hist[2], loss_hist[3])

\* C10: from the return of sample_features_weights on, no step changes W, b
\* or theta, and the final function values are computed with them.
C10_Frame ==
    pc \in {"init", "opt", "select"} =>
       /\ W' = W /\ b' = b /\ theta' = theta /\ phi' = phi
       /\ pc' = "done" => fvals' = FVals(x_star', W, b, theta)

C10_OnlyXStarTrained == [][C10_Frame]_vars

C10_Witness ==
    /\ pc = "done"
    /\ updates > 0
    /\ loss_hist[1] # loss_hist[updates + 1]
    /\ fvals = FVals(x_star, W, b, theta)

-----------------------------------------------------------------------------
(* Properties of objective_get_y (SpecY).                                  *)

InputDims == x.shape[Ndim(x)]

NumChoices == x.shape[Ndim(x) - 1]

BatchShape == SubSeq(x.shape, 1, Ndim(x) - 2)

ChoiceValue(q, j) ==
    six_hump_camel(x.data[q \o <<j, 0>>], x.data[q \o <<j, 1>>])

\* C5: for any number of leading batch axes the result has shape
\* (..., input_dims) and holds, for each query, the first candidate whose
\* objective value is least among the query's candidates.
C5_ArgminPoint ==
    pc = "y_done" =>
      /\ err = "none"
      /\ y.shape = BatchShape \o <<InputDims>>
      /\ \A q \in Indices(BatchShape) :
           \E j \in 0..(NumChoices - 1) :
             /\ \A k \in 0..(NumChoices - 1) : ChoiceValue(q, j) <= ChoiceValue(q, k)
             /\ \A k \in 0..(j - 1) : ChoiceValue(q, k) > ChoiceValue(q, j)
             /\ \A dim \in 0..(InputDims - 1) : y.data[q \o <<dim>>] = x.data[q \o <<j, dim>>]

=============================================================================
